---- MODULE Spec2Model ----
(***************************************************************************)
(* Model of the payroll agent: the LangGraph workflow of                   *)
(* src/src/react_agent/graph.py (init -> vlm_processor -> update_agent <-> *)
(* tool_executor), the /chat, /merge-employees and /generate-payroll       *)
(* endpoints of src/backend/main.py and the Streamlit client of            *)
(* src/frontend/streamlit_app.py that holds the session between turns.     *)
(*                                                                         *)
(* Encoding of numbers.  Hours are kept as integers counting half hours    *)
(* (38.5 h = 77), pay rates as whole dollars, and pay amounts as integers  *)
(* counting quarter dollars (1925.0 $ = 7700), so that the products of the *)
(* payroll calculation are exact.                                          *)
(*                                                                         *)
(* Node semantics.  A graph node receives a State object built from the    *)
(* channels; only the dictionary it returns is written back.  Attribute    *)
(* assignments a node makes on its State argument are therefore local to   *)
(* that node execution.                                                    *)
(***************************************************************************)
EXTENDS Integers, Sequences, FiniteSets, TLC

VARIABLES
    session,     \* st.session_state of the client: existing_employees, workflow_state
    request,     \* the /chat request being processed, or NoRequest
    state,       \* the graph State (channels) of the turn in flight
    node,        \* next graph node of the turn in flight, "idle" between turns
    reply,       \* what the last turn returned to the client
    turns,       \* number of turns started
    rounds,      \* tool_executor executions in the turn in flight
    extraction,  \* the answer of the document extractor, until update_agent runs
    fn,          \* inputs and result of a direct call of merge / payroll
    jobs         \* the /chat requests the server is running, one per slot

vars == <<session, request, state, node, reply, turns, rounds, extraction, fn, jobs>>

-----------------------------------------------------------------------------
(* Bounds of the model *)

\* turns per session
MaxTurns == 2
\* update_agent -> tool_executor rounds explored in one turn
MaxToolRounds == 1
\* length of the rosters given to merge / payroll when called directly
MaxLen == 2
\* /chat requests the server runs at the same time
MaxInFlight == 2

-----------------------------------------------------------------------------
(* Employee records and rosters *)

Emp(n, rh, oh, pr) ==
    [name |-> n, regular_hours |-> rh, overtime_hours |-> oh, payrate |-> pr]

\* load_previous_payperiod_data: the hardcoded roster store
load_previous_payperiod_data ==
    << Emp("John Doe", 80, 10, 60),
       Emp("Jane Smith", 77, 5, 50),
       Emp("Bob Johnson", 84, 16, 45),
       Emp("Alice Williams", 70, 6, 55),
       Emp("Charlie Brown", 80, 0, 48) >>

Range(seq) == {seq[i] : i \in DOMAIN seq}

NamesOf(roster) == {roster[i].name : i \in DOMAIN roster}

UniqueNames(roster) ==
    \A i, j \in DOMAIN roster : roster[i].name = roster[j].name => i = j

HasName(roster, n) == \E i \in DOMAIN roster : roster[i].name = n

\* the record stored under name n (the last one when the name repeats)
Lookup(roster, n) ==
    LET idx == {i \in DOMAIN roster : roster[i].name = n}
        last == CHOOSE i \in idx : \A j \in idx : j <= i
    IN  roster[last]

-----------------------------------------------------------------------------
(* Merge engine: react_agent.tools.merge_employees.  The function is        *)
(* imported by graph.py and main.py but its body is not among the sources; *)
(* it is written here from section 4.1 of the specification.               *)

\* dict[key] = rec on an insertion-ordered dict kept as a sequence
DictPut(dict, rec) ==
    IF HasName(dict, rec.name)
    THEN [i \in DOMAIN dict |-> IF dict[i].name = rec.name THEN rec ELSE dict[i]]
    ELSE Append(dict, rec)

RECURSIVE IndexByName(_, _)
IndexByName(dict, roster) ==
    IF roster = <<>> THEN dict
    ELSE IndexByName(DictPut(dict, Head(roster)), Tail(roster))

\* the record that replaces `old` when `upd` has the same name
MergeRecord(old, upd) ==
    Emp(upd.name, upd.regular_hours, upd.overtime_hours,
        IF upd.payrate > 0 THEN upd.payrate ELSE old.payrate)

RECURSIVE ApplyUpdates(_, _)
ApplyUpdates(dict, updates) ==
    IF updates = <<>> THEN dict
    ELSE LET u == Head(updates)
             rec == IF HasName(dict, u.name) THEN MergeRecord(Lookup(dict, u.name), u)
                    ELSE u
         IN  ApplyUpdates(DictPut(dict, rec), Tail(updates))

merge_employees(existing, updates) ==
    ApplyUpdates(IndexByName(<<>>, existing), updates)

-----------------------------------------------------------------------------
(* Payroll calculation: payroll_agent (graph.py) and /generate-payroll     *)
(* (main.py).  Hours count half hours and amounts count quarter dollars:   *)
(* a rate of r dollars is 2r half dollars, and r * 1.5 is 3r half dollars. *)

\* emp.payrate, in half dollars
Rate(payrate) == 2 * payrate

\* a variant that pays overtime hours at the plain rate
OvertimeRate_Straight(payrate) == 2 * payrate

\* emp.payrate * 1.5, in half dollars
OvertimeRate(payrate) == 3 * payrate

PayrollEmployee(emp) ==
    LET regular_pay == emp.regular_hours * Rate(emp.payrate)
        overtime_pay == emp.overtime_hours * OvertimeRate(emp.payrate)
        total_pay == regular_pay + overtime_pay
    IN  [name |-> emp.name,
         regular_hours |-> emp.regular_hours,
         overtime_hours |-> emp.overtime_hours,
         payrate |-> emp.payrate,
         regular_pay |-> regular_pay,
         overtime_pay |-> overtime_pay,
         total_pay |-> total_pay]

\* the loop "for emp in employees": total_payroll += total_pay
RECURSIVE TotalPayroll(_, _)
TotalPayroll(total_payroll, employees) ==
    IF employees = <<>> THEN total_payroll
    ELSE TotalPayroll(total_payroll + PayrollEmployee(Head(employees)).total_pay,
                      Tail(employees))

\* the report dictionary built from the roster the loop runs over
ReportDict(employees) ==
    LET payroll_employees == [i \in DOMAIN employees |-> PayrollEmployee(employees[i])]
        total_payroll == TotalPayroll(0, employees)
    IN  [employees |-> payroll_employees,
         total_payroll |-> total_payroll,
         summary |-> [count |-> Len(payroll_employees), total |-> total_payroll]]

\* a variant that computes over the updated roster alone
payroll_agent_UpdatedOnly(existing_employees, updated_employees) ==
    ReportDict(updated_employees)

\* payroll_agent: merges the two rosters of the State, then computes
payroll_agent(existing_employees, updated_employees) ==
    ReportDict(merge_employees(existing_employees, updated_employees))

\* a variant that leaves out the employees without a pay rate
generate_payroll_PaidOnly(employees) ==
    [success |-> TRUE,
     payroll_report |-> ReportDict(SelectSeq(employees, LAMBDA emp : emp.payrate > 0))]

\* POST /generate-payroll
generate_payroll(employees) ==
    [success |-> TRUE, payroll_report |-> ReportDict(employees)]

\* a variant that answers with the existing roster alone
merge_employee_lists_ExistingOnly(existing_employees, updated_employees) ==
    [success |-> TRUE, merged_employees |-> existing_employees]

\* a variant that passes the two rosters to the merge in the other order
merge_employee_lists_Swapped(existing_employees, updated_employees) ==
    [success |-> TRUE,
     merged_employees |-> merge_employees(updated_employees, existing_employees)]

\* POST /merge-employees
merge_employee_lists(existing_employees, updated_employees) ==
    [success |-> TRUE,
     merged_employees |-> merge_employees(existing_employees, updated_employees)]

-----------------------------------------------------------------------------
(* User messages and the confirmation check of update_agent.  A message is *)
(* a sequence of characters.                                               *)

MsgLooksGood == << "l", "o", "o", "k", "s", " ", "g", "o", "o", "d" >>
MsgMaybe == << "m", "a", "y", "b", "e" >>
MsgYes == << "Y", "e", "s" >>
MsgOk == << "o", "k" >>

\* a multimodal content: a list of content items, each given by its type
ContentItems == {"text", "file", "image"}
MsgDocument == <<"text", "file">>
MsgPicture == <<"text", "image">>

\* isinstance(content, list)
IsListContent(content) ==
    content # <<>> /\ \A i \in DOMAIN content : content[i] \in ContentItems

UserMessages == {MsgLooksGood, MsgMaybe, MsgYes}

\* str.lower() on the characters the messages use
UpperCase ==
    << "A", "B", "C", "D", "E", "F", "G", "H", "I", "J", "K", "L", "M",
       "N", "O", "P", "Q", "R", "S", "T", "U", "V", "W", "X", "Y", "Z" >>

LowerCase ==
    << "a", "b", "c", "d", "e", "f", "g", "h", "i", "j", "k", "l", "m",
       "n", "o", "p", "q", "r", "s", "t", "u", "v", "w", "x", "y", "z" >>

LowerChar(c) ==
    IF \E i \in DOMAIN UpperCase : UpperCase[i] = c
    THEN LowerCase[CHOOSE i \in DOMAIN UpperCase : UpperCase[i] = c]
    ELSE c

\* a variant that compares the message as typed
Lower_AsTyped(text) == text

Lower(text) == [i \in DOMAIN text |-> LowerChar(text[i])]

\* keyword in text
Contains(text, keyword) ==
    \E i \in 0 .. (Len(text) - Len(keyword)) :
        SubSeq(text, i + 1, i + Len(keyword)) = keyword

confirmation_keywords ==
    << << "c", "o", "n", "f", "i", "r", "m" >>,
       << "a", "p", "p", "r", "o", "v", "e", "d" >>,
       << "l", "o", "o", "k", "s", " ", "g", "o", "o", "d" >>,
       << "c", "o", "r", "r", "e", "c", "t" >>,
       << "y", "e", "s" >>,
       << "p", "r", "o", "c", "e", "e", "d" >> >>

\* is_confirmed for the content of the last human message
IsConfirmed(content) ==
    \E k \in DOMAIN confirmation_keywords :
        Contains(Lower(content), confirmation_keywords[k])

-----------------------------------------------------------------------------
(* Values of the workflow.  An optional value (None, or a missing key) is  *)
(* a sequence of length 0 or 1.                                            *)

None == <<>>

Some(x) == <<x>>

HumanMessage(content) == [type |-> "human", content |-> content, tool_calls |-> <<>>]

AIMessage(content, tool_calls) ==
    [type |-> "ai", content |-> <<content>>, tool_calls |-> tool_calls]

ToolMessage(content) == [type |-> "tool", content |-> <<content>>, tool_calls |-> <<>>]

\* rosters a document can hold
DocHours == << Emp("John Doe", 84, 0, 0), Emp("Jane Smith", 77, 5, 50) >>
DocNewHire == << Emp("Eve Adams", 40, 0, 30) >>
\* a document with two rows for one employee
DocRepeated == << Emp("Eve Adams", 40, 0, 30), Emp("Eve Adams", 16, 0, 30) >>

ExtractedRosters == {<<>>, DocHours, DocNewHire, DocRepeated}

\* what process_document_with_files_api and the fallback model can do
ExtractorOutcomes ==
    {[kind |-> "raise", employees |-> <<>>]}
    \cup {[kind |-> "structured", employees |-> r] : r \in ExtractedRosters}
    \cup {[kind |-> "content_json", employees |-> r] : r \in {<<>>, DocNewHire}}
    \cup {[kind |-> "content_fallback", employees |-> r] : r \in {<<>>, DocHours}}
    \cup {[kind |-> "content_fallback_raise", employees |-> <<>>],
          [kind |-> "no_result", employees |-> <<>>]}

\* tool calls the responder can put in its reply
ToolRoster == << Emp("Eve Adams", 40, 0, 30) >>

\* a dictionary EmployeeData(**emp) rejects: regular_hours is missing
BadDict == [name |-> "Bob Johnson", overtime_hours |-> 0, payrate |-> 45]

UpdateState(target_list, employees) ==
    [name |-> "update_state", target_list |-> target_list, employees |-> employees]

ToolCalls ==
    {UpdateState(Some(t), Some(ToolRoster)) :
        t \in {"current_employees", "updated_employees", "existing_employees"}}
    \cup {UpdateState(None, Some(ToolRoster)),
          UpdateState(Some("existing_employees"), Some(<<BadDict>>)),
          [name |-> "search", target_list |-> None, employees |-> None]}

ToolCallBatches ==
    {<<tc>> : tc \in ToolCalls}
    \cup {<< UpdateState(None, Some(ToolRoster)),
             UpdateState(Some("updated_employees"), Some(ToolRoster)) >>}

\* what model.ainvoke of update_agent can return
ResponderOutcomes ==
    {[kind |-> "text", tool_calls |-> <<>>], [kind |-> "raise", tool_calls |-> <<>>]}
    \cup {[kind |-> "tool_calls", tool_calls |-> b] : b \in ToolCallBatches}

-----------------------------------------------------------------------------
(* The client session and the /chat request *)

NoRequest ==
    [content |-> <<>>, file_data |-> FALSE,
     existing_employees |-> <<>>, updated_employees |-> <<>>, current_employees |-> <<>>,
     user_approval |-> FALSE, trigger_payroll |-> FALSE, current_pay_data |-> None]

\* State(): every field at its default
DefaultState ==
    [messages |-> <<>>,
     document_uploaded |-> FALSE,
     document_processing_done |-> FALSE,
     file_data |-> FALSE,
     file_path |-> FALSE,
     document_content |-> FALSE,
     existing_employees |-> <<>>,
     updated_employees |-> <<>>,
     updates_list |-> <<>>,
     current_employees |-> <<>>,
     user_approval |-> FALSE,
     trigger_payroll |-> FALSE,
     current_pay_data |-> None]

NoReply == [success |-> TRUE, response |-> "none", workflow_state |-> None]

\* rosters a session can start with: the client's own (empty) and the ones the
\* graph is driven with in test_3_agent_system.py
SeedExisting == {<<>>, << Emp("John Doe", 80, 10, 25) >>}
SeedUpdated == {<<>>, << Emp("Alice Williams", 70, 6, 28) >>}

-----------------------------------------------------------------------------
(* Graph nodes, as functions from the State a node receives (and what the  *)
(* external collaborator answers) to the State after its return value is   *)
(* written to the channels.                                                *)

\* init_node lines 68-79: the last message has a list content with an item of
\* type file or image
HasFileItem(messages) ==
    /\ messages # <<>>
    /\ IsListContent(messages[Len(messages)].content)
    /\ \E i \in DOMAIN messages[Len(messages)].content :
          messages[Len(messages)].content[i] \in {"file", "image"}

\* a variant that loads the previous pay period whatever the State holds
init_node_AlwaysLoad(s) ==
    [s EXCEPT !.existing_employees = load_previous_payperiod_data]

\* init_node: the scan of the last message sets document_uploaded on the
\* node's own State object; the returned dictionary holds the loaded roster
\* only, and only the returned dictionary is written to the channels.
init_node(s) ==
    LET local == IF HasFileItem(s.messages)
                 THEN [s EXCEPT !.document_uploaded = TRUE] ELSE s
    IN  IF local.existing_employees = <<>>
        THEN [s EXCEPT !.existing_employees = load_previous_payperiod_data]
        ELSE s

route_init(s) == IF s.document_uploaded THEN "vlm_processor" ELSE "update_agent"

\* the updates_list vlm_processor returns when it runs the extraction
Extracted(s, o) ==
    IF s.file_data \/ s.file_path
    THEN CASE o.kind = "raise" -> <<>>
           [] o.kind = "structured" -> o.employees
           [] o.kind = "content_json" -> o.employees
           [] o.kind = "content_fallback" -> o.employees
           [] o.kind = "content_fallback_raise" -> <<>>
           [] OTHER -> <<>>
    ELSE IF s.document_content
    THEN CASE o.kind = "content_json" -> o.employees
           [] o.kind = "content_fallback" -> o.employees
           [] OTHER -> <<>>
    ELSE <<>>

\* vlm_processor calls the files API (a file is at hand) or the fallback model
\* (the State came with a document_content that holds no JSON block)
ExtractorCalled(s, o) ==
    \/ s.file_data
    \/ s.file_path
    \/ s.document_content /\ o.kind # "content_json"

\* a variant whose except branch lets the exception out of the node
vlm_processor_Reraise(s, o) ==
    IF s.updates_list # <<>>
    THEN [raised |-> FALSE, extractor_called |-> FALSE, temp_file |-> FALSE,
          state |-> [s EXCEPT !.document_processing_done = TRUE]]
    ELSE [raised |-> ExtractorCalled(s, o)
                        /\ o.kind \in {"raise", "content_fallback_raise"},
          extractor_called |-> ExtractorCalled(s, o), temp_file |-> s.file_data,
          state |-> [s EXCEPT !.updates_list = Extracted(s, o),
                              !.document_processing_done = TRUE]]

\* a variant without the early return for a State that brings its updates_list
vlm_processor_NoSkip(s, o) ==
    [raised |-> FALSE, extractor_called |-> ExtractorCalled(s, o),
     temp_file |-> s.file_data,
     state |-> [s EXCEPT !.updates_list = Extracted(s, o),
                         !.document_processing_done = TRUE]]

\* vlm_processor: every path, the except branch included, returns a dictionary;
\* temp_file tells whether it wrote file_data to a temporary file
vlm_processor(s, o) ==
    IF s.updates_list # <<>>
    THEN [raised |-> FALSE, extractor_called |-> FALSE, temp_file |-> FALSE,
          state |-> [s EXCEPT !.document_processing_done = TRUE]]
    ELSE [raised |-> FALSE, extractor_called |-> ExtractorCalled(s, o),
          temp_file |-> s.file_data,
          state |-> [s EXCEPT !.updates_list = Extracted(s, o),
                              !.document_processing_done = TRUE]]

route_vlm(s) == "update_agent"

\* current_messages[-10:]
RecentMessages(messages) ==
    IF Len(messages) > 10 THEN SubSeq(messages, Len(messages) - 9, Len(messages))
    ELSE messages

\* content of the last human message, "" when there is none
LastUserMessage(messages) ==
    LET humans == {i \in DOMAIN messages : messages[i].type = "human"}
    IN  IF humans = {} THEN <<>>
        ELSE messages[CHOOSE i \in humans : \A j \in humans : j <= i].content

\* a variant without the branch for an updated roster alone
MergedEmployees_ExistingOnly(existing_employees, updated_employees) ==
    IF existing_employees # <<>> /\ updated_employees # <<>>
    THEN merge_employees(existing_employees, updated_employees)
    ELSE existing_employees

\* a variant that takes the updated roster as it is whenever there is one
MergedEmployees_NoMerge(existing_employees, updated_employees) ==
    IF updated_employees # <<>> THEN updated_employees ELSE existing_employees

\* a variant that appends the updated roster to the existing one
MergedEmployees_Concat(existing_employees, updated_employees) ==
    existing_employees \o updated_employees

\* the roster update_agent builds once the user has confirmed
MergedEmployees(existing_employees, updated_employees) ==
    IF existing_employees # <<>> /\ updated_employees # <<>>
    THEN merge_employees(existing_employees, updated_employees)
    ELSE IF updated_employees # <<>> THEN updated_employees
    ELSE existing_employees

\* update_agent lines 236-243: the move of updates_list, on the node's own copy
MoveUpdates(s) ==
    IF s.updates_list # <<>> /\ s.updated_employees = <<>>
    THEN [s EXCEPT !.updated_employees = s.updates_list, !.updates_list = <<>>]
    ELSE s

\* a variant whose move of updates_list is unguarded and is returned
update_agent_Overwrite(s, r) ==
    IF s.trigger_payroll \/ r.kind = "raise" \/ s.updates_list = <<>>
    THEN [raised |-> r.kind = "raise" /\ ~s.trigger_payroll,
          responder_called |-> ~s.trigger_payroll, state |-> s]
    ELSE [raised |-> FALSE, responder_called |-> TRUE,
          state |-> [s EXCEPT
              !.messages = Append(@, AIMessage("response", r.tool_calls)),
              !.updated_employees = s.updates_list]]

\* update_agent; r is what model.ainvoke returns (or that it raises).  A last
\* human message whose content is a list has no lower(): line 316 raises.
update_agent(s, r) ==
    LET local == MoveUpdates(s)
        is_confirmed == IsConfirmed(LastUserMessage(RecentMessages(local.messages)))
    IN  IF s.trigger_payroll
        THEN [raised |-> FALSE, responder_called |-> FALSE,
              state |-> [s EXCEPT !.messages = Append(@, AIMessage("thanks", <<>>))]]
        ELSE IF r.kind = "raise"
                \/ IsListContent(LastUserMessage(RecentMessages(local.messages)))
        THEN [raised |-> TRUE, responder_called |-> TRUE, state |-> s]
        ELSE IF is_confirmed
                /\ (local.updated_employees # <<>> \/ local.existing_employees # <<>>)
        THEN [raised |-> FALSE, responder_called |-> TRUE,
              state |-> [s EXCEPT
                  !.messages = Append(@, AIMessage("summary", <<>>)),
                  !.user_approval = TRUE,
                  !.updated_employees =
                      MergedEmployees(local.existing_employees, local.updated_employees)]]
        ELSE [raised |-> FALSE, responder_called |-> TRUE,
              state |-> [s EXCEPT
                  !.messages = Append(@, AIMessage("response", r.tool_calls))]]

route_update(s) ==
    IF s.messages # <<>> /\ s.messages[Len(s.messages)].tool_calls # <<>>
    THEN "tool_executor" ELSE "__end__"

\* EmployeeData(**emp) succeeds
CanBuild(emp) ==
    {"name", "regular_hours", "overtime_hours", "payrate"} \subseteq DOMAIN emp

\* the try block of tool_executor completes for this call
ToolCallOk(tc) ==
    /\ tc.target_list # None
    /\ tc.employees # None
    /\ \A i \in DOMAIN tc.employees[1] : CanBuild(tc.employees[1][i])

\* a variant whose current_employees branch sets trigger_payroll alone
ApplyToolCall_TriggerOnly(updates, tc) ==
    IF tc.name # "update_state" \/ ~ToolCallOk(tc) THEN updates
    ELSE IF tc.target_list[1] = "current_employees"
    THEN [updates EXCEPT !.current_employees = Some(tc.employees[1]),
                         !.trigger_payroll = Some(TRUE)]
    ELSE IF tc.target_list[1] = "updated_employees"
    THEN [updates EXCEPT !.updated_employees = Some(tc.employees[1])]
    ELSE IF tc.target_list[1] = "existing_employees"
    THEN [updates EXCEPT !.existing_employees = Some(tc.employees[1])]
    ELSE updates

\* a variant that builds the records only after it has stored the list
ApplyToolCall_StoreFirst(updates, tc) ==
    IF tc.name # "update_state" \/ tc.target_list = None \/ tc.employees = None
    THEN updates
    ELSE IF tc.target_list[1] = "existing_employees"
    THEN [updates EXCEPT !.existing_employees = Some(tc.employees[1])]
    ELSE IF tc.target_list[1] = "updated_employees" /\ ToolCallOk(tc)
    THEN [updates EXCEPT !.updated_employees = Some(tc.employees[1])]
    ELSE IF tc.target_list[1] = "current_employees" /\ ToolCallOk(tc)
    THEN [updates EXCEPT !.current_employees = Some(tc.employees[1]),
                         !.user_approval = Some(TRUE),
                         !.trigger_payroll = Some(TRUE)]
    ELSE updates

\* the `updates` dictionary after one tool call; a key not set is None
ApplyToolCall(updates, tc) ==
    IF tc.name # "update_state" \/ ~ToolCallOk(tc) THEN updates
    ELSE LET target == tc.target_list[1]
             employees == tc.employees[1]
         IN  CASE target = "current_employees" ->
                    [updates EXCEPT !.current_employees = Some(employees),
                                    !.user_approval = Some(TRUE),
                                    !.trigger_payroll = Some(TRUE)]
               [] target = "updated_employees" ->
                    [updates EXCEPT !.updated_employees = Some(employees)]
               [] target = "existing_employees" ->
                    [updates EXCEPT !.existing_employees = Some(employees)]
               [] OTHER -> updates

RECURSIVE ToolUpdates(_, _)
ToolUpdates(updates, tool_calls) ==
    IF tool_calls = <<>> THEN updates
    ELSE ToolUpdates(ApplyToolCall(updates, Head(tool_calls)), Tail(tool_calls))

RECURSIVE ToolMessages(_)
ToolMessages(tool_calls) ==
    IF tool_calls = <<>> THEN <<>>
    ELSE LET tc == Head(tool_calls)
             rest == ToolMessages(Tail(tool_calls))
         IN  IF tc.name # "update_state" THEN rest
             ELSE IF ToolCallOk(tc) THEN <<ToolMessage("updated")>> \o rest
             ELSE <<ToolMessage("error")>> \o rest

NoUpdates ==
    [current_employees |-> None, updated_employees |-> None,
     existing_employees |-> None, user_approval |-> None, trigger_payroll |-> None]

\* a channel after the key of `updates` is written to it
Written(old, update) == IF update = None THEN old ELSE update[1]

\* tool_executor: return {"messages": tool_messages, **updates}
tool_executor(s) ==
    LET tool_calls == s.messages[Len(s.messages)].tool_calls
        updates == ToolUpdates(NoUpdates, tool_calls)
    IN  [s EXCEPT
            !.messages = @ \o ToolMessages(tool_calls),
            !.current_employees = Written(@, updates.current_employees),
            !.updated_employees = Written(@, updates.updated_employees),
            !.existing_employees = Written(@, updates.existing_employees),
            !.user_approval = Written(@, updates.user_approval),
            !.trigger_payroll = Written(@, updates.trigger_payroll)]

route_tools(s) == "update_agent"

-----------------------------------------------------------------------------
(* The /chat endpoint and the client around one graph run *)

\* get_agent_response: the request data built from st.session_state
RequestData(content, file_data) ==
    [content |-> content, file_data |-> file_data,
     existing_employees |-> session.existing_employees,
     updated_employees |-> session.workflow_state.updated_employees,
     current_employees |-> session.workflow_state.current_employees,
     user_approval |-> session.workflow_state.user_approval,
     trigger_payroll |-> session.workflow_state.trigger_payroll,
     current_pay_data |-> session.workflow_state.current_pay_data]

\* chat: fresh_state, the State the graph is invoked with
FreshState(req) ==
    [DefaultState EXCEPT
        !.messages = <<HumanMessage(req.content)>>,
        !.document_uploaded = req.file_data,
        !.file_data = req.file_data,
        !.file_path = req.file_data,
        !.existing_employees = req.existing_employees,
        !.updated_employees = req.updated_employees,
        !.user_approval = req.user_approval,
        !.trigger_payroll = req.trigger_payroll]

\* chat: the content of the last AIMessage of the result
ResponseContent(messages) ==
    LET ais == {i \in DOMAIN messages : messages[i].type = "ai"}
    IN  IF ais = {} THEN "unsure"
        ELSE messages[CHOOSE i \in ais : \A j \in ais : j <= i].content[1]

\* chat: response_data for the result of graph.ainvoke
ResponseData(result) ==
    [success |-> TRUE,
     response |-> ResponseContent(result.messages),
     workflow_state |-> Some(
        [document_uploaded |-> result.document_uploaded,
         document_processing_done |-> result.document_processing_done,
         updated_employees |-> result.updated_employees,
         existing_employees |-> result.existing_employees,
         user_approval |-> result.user_approval,
         trigger_payroll |-> result.trigger_payroll,
         current_pay_data |-> result.current_pay_data])]

\* chat: the reply when graph.ainvoke raises
ErrorResponse == [success |-> FALSE, response |-> "error", workflow_state |-> None]

\* a variant that applies the workflow_state of a failure reply, {}, as well:
\* the flags fall back to their defaults
UpdatedWorkflowState_IgnoreSuccess(ws, rep) ==
    IF rep.workflow_state # None
    THEN [ws EXCEPT
            !.updated_employees = rep.workflow_state[1].updated_employees,
            !.user_approval = rep.workflow_state[1].user_approval,
            !.trigger_payroll = rep.workflow_state[1].trigger_payroll,
            !.current_pay_data = rep.workflow_state[1].current_pay_data]
    ELSE [ws EXCEPT !.user_approval = FALSE, !.trigger_payroll = FALSE]

\* get_agent_response: st.session_state.workflow_state after a reply
UpdatedWorkflowState(ws, rep) ==
    IF rep.success /\ rep.workflow_state # None
    THEN [ws EXCEPT
            !.updated_employees = rep.workflow_state[1].updated_employees,
            !.user_approval = rep.workflow_state[1].user_approval,
            !.trigger_payroll = rep.workflow_state[1].trigger_payroll,
            !.current_pay_data = rep.workflow_state[1].current_pay_data]
    ELSE ws

NoCall == [op |-> "none", existing |-> <<>>, updates |-> <<>>, done |-> FALSE,
           content |-> <<>>, confirmed |-> FALSE, success |-> FALSE,
           merged |-> <<>>, report |-> None,
           remerged |-> <<>>, workflow_report |-> None]

Slots == 1 .. MaxInFlight

\* a slot no request occupies
IdleJob == [node |-> "idle", request |-> NoRequest, state |-> DefaultState, rounds |-> 0]

Init ==
    /\ session \in
         {[existing_employees |-> e,
           workflow_state |-> [updated_employees |-> u, current_employees |-> <<>>,
                               user_approval |-> FALSE, trigger_payroll |-> FALSE,
                               current_pay_data |-> None]] :
            e \in SeedExisting, u \in SeedUpdated}
    /\ request = NoRequest
    /\ state = DefaultState
    /\ node = "idle"
    /\ reply = NoReply
    /\ turns = 0
    /\ rounds = 0
    /\ extraction = None
    /\ fn = NoCall
    /\ jobs = [k \in Slots |-> IdleJob]

\* the client posts a message (and maybe a document) to /chat, which builds the
\* State and invokes the graph
Chat ==
    /\ node = "idle"
    /\ turns < MaxTurns
    /\ \E content \in UserMessages, file_data \in BOOLEAN :
         /\ request' = RequestData(content, file_data)
         /\ state' = FreshState(RequestData(content, file_data))
    /\ node' = "init"
    /\ turns' = turns + 1
    /\ rounds' = 0
    /\ UNCHANGED <<session, reply, extraction, fn, jobs>>

InitNode ==
    /\ node = "init"
    /\ state' = init_node(state)
    /\ node' = route_init(state')
    /\ UNCHANGED <<session, request, reply, turns, rounds, extraction, fn, jobs>>

VlmProcessor ==
    /\ node = "vlm_processor"
    /\ \E o \in ExtractorOutcomes :
         LET out == vlm_processor(state, o)
         IN  /\ state' = out.state
             /\ node' = IF out.raised THEN "raised" ELSE route_vlm(out.state)
             /\ extraction' = IF out.extractor_called THEN Some(o) ELSE None
    /\ UNCHANGED <<session, request, reply, turns, rounds, fn, jobs>>

UpdateAgent ==
    /\ node = "update_agent"
    /\ \E r \in ResponderOutcomes :
         /\ r.kind = "tool_calls" => rounds < MaxToolRounds
         /\ LET out == update_agent(state, r)
            IN  /\ state' = out.state
                /\ node' = IF out.raised THEN "raised" ELSE route_update(out.state)
    /\ extraction' = None
    /\ UNCHANGED <<session, request, reply, turns, rounds, fn, jobs>>

ToolExecutor ==
    /\ node = "tool_executor"
    /\ state' = tool_executor(state)
    /\ node' = route_tools(state')
    /\ rounds' = rounds + 1
    /\ UNCHANGED <<session, request, reply, turns, extraction, fn, jobs>>

\* graph.ainvoke returns or raises; /chat answers and the client stores the
\* workflow_state of the answer
ChatReturn ==
    /\ node \in {"__end__", "raised"}
    /\ reply' = IF node = "raised" THEN ErrorResponse ELSE ResponseData(state)
    /\ session' = [session EXCEPT
                      !.workflow_state = UpdatedWorkflowState(@, reply')]
    /\ node' = "idle"
    /\ request' = NoRequest
    /\ state' = DefaultState
    /\ rounds' = 0
    /\ extraction' = None
    /\ UNCHANGED <<turns, fn, jobs>>

Next ==
    \/ Chat
    \/ InitNode
    \/ VlmProcessor
    \/ UpdateAgent
    \/ ToolExecutor
    \/ ChatReturn

Spec == Init /\ [][Next]_vars

-----------------------------------------------------------------------------
(* Properties of the workflow.  During a turn `request` holds the session  *)
(* state and the user message the turn started from, `state` the graph's   *)
(* channels, and node = "__end__" marks the end of the graph run.          *)

\* the turn in flight started with a non-empty, unconfirmed pending roster
StartedPending ==
    /\ request.updated_employees # <<>>
    /\ ~request.user_approval
    /\ ~request.trigger_payroll

\* C1 (confirmation gating): while the pending roster is non-empty and the
\* user has not approved it, no step of a turn sets trigger_payroll or
\* produces current_pay_data, whatever the responder returns.
C1_ConfirmationGating ==
    [][(/\ node \notin {"idle", "__end__", "raised"}
        /\ state.updated_employees # <<>>
        /\ ~state.user_approval
        /\ ~state.trigger_payroll
        /\ state.current_pay_data = None)
       => (~state'.trigger_payroll /\ state'.current_pay_data = None)]_vars

\* C4 (confirmation triggers payroll): a turn that starts with a non-empty
\* pending roster and whose message is a confirmation ends with
\* user_approval and trigger_payroll set and a payroll report present.
C4_ConfirmationTriggersPayroll ==
    (node = "__end__" /\ StartedPending /\ IsConfirmed(request.content))
    => (/\ state.user_approval
        /\ state.trigger_payroll
        /\ state.current_pay_data # None)

\* C5 (promotion on confirmation): at the end of a confirming turn the
\* existing roster equals the pending roster held at the start of the turn
\* and the pending roster is empty.
C5_PromotionOnConfirmation ==
    (node = "__end__" /\ StartedPending /\ IsConfirmed(request.content))
    => (/\ state.existing_employees = request.updated_employees
        /\ state.updated_employees = <<>>)

\* C6 (non-confirmation holds): a turn that starts with a non-empty pending
\* roster and whose message is "maybe" ends with the pending roster
\* unchanged, both flags still false and no payroll report.
C6_NonConfirmationHolds ==
    (node = "__end__" /\ StartedPending /\ request.content = MsgMaybe)
    => (/\ state.updated_employees = request.updated_employees
        /\ ~state.user_approval
        /\ ~state.trigger_payroll
        /\ state.current_pay_data = None)

\* the rosters and flags of a graph state
WorkflowState(s) ==
    [existing_employees |-> s.existing_employees,
     updated_employees |-> s.updated_employees,
     current_employees |-> s.current_employees,
     user_approval |-> s.user_approval,
     trigger_payroll |-> s.trigger_payroll,
     current_pay_data |-> s.current_pay_data]

\* the end of the turn in flight had the responder answered with plain text:
\* same request, same extraction result
TextOnlyResult ==
    LET extracted == [init_node(FreshState(request)) EXCEPT
                         !.updates_list = state.updates_list,
                         !.document_processing_done = state.document_processing_done]
    IN  update_agent(extracted, [kind |-> "text", tool_calls |-> <<>>]).state

\* C8 (responder non-interference): the rosters and flags a turn ends with
\* are those of the run of the same request in which the responder returns
\* plain text; what the responder returns changes none of them.
C8_ResponderNonInterference ==
    node = "__end__" => WorkflowState(state) = WorkflowState(TextOnlyResult)

\* the extractor raised, found no records or returned unusable output
ExtractionFailed(o) ==
    \/ o.kind \in {"raise", "no_result", "content_fallback_raise"}
    \/ o.employees = <<>>

StartedIdle ==
    /\ request.updated_employees = <<>>
    /\ ~request.user_approval

\* C15 (confirmation requires a pending merge): a turn that starts with no
\* pending roster ends with user_approval still false, and, when it carries
\* no document, with the pending roster still empty, whatever the message.
C15_ConfirmationRequiresPending ==
    (node = "__end__" /\ StartedIdle) =>
        /\ ~state.user_approval
        /\ (~request.file_data => state.updated_employees = <<>>)

\* C17 (failed turns leave the session intact): when the graph run of a turn
\* raises, the caller gets a failure reply and the session state it holds
\* for the next turn is the one it held before the turn.
C17_FailedTurnLeavesSession ==
    [][node = "raised" =>
          (/\ node' = "idle"
           /\ ~reply'.success
           /\ session' = session)]_vars

\* the second turn of a session failed after the first had been confirmed,
\* and the session still holds the approval
C17_Witness ==
    /\ node = "idle"
    /\ turns = 2
    /\ ~reply.success
    /\ session.workflow_state.user_approval
    /\ session.workflow_state.updated_employees # <<>>

\* C18 (unique names): in every state of a session the existing roster, the
\* incoming updates and the pending roster each have pairwise distinct names.
C18_UniqueNames ==
    /\ UniqueNames(state.existing_employees)
    /\ UniqueNames(state.updates_list)
    /\ UniqueNames(state.updated_employees)
    /\ UniqueNames(session.existing_employees)
    /\ UniqueNames(session.workflow_state.updated_employees)

\* the document turn in flight started with nothing pending and its
\* extraction found records
ExtractedIntoIdle ==
    /\ request.file_data
    /\ StartedIdle
    /\ ~request.trigger_payroll
    /\ state.updates_list # <<>>

\* C19 (merge precedes confirmation): a turn whose extraction yields records
\* while nothing is pending ends with the pending roster equal to the merge of
\* the existing roster with those records and with user_approval false,
\* whatever the user message says.
C19_MergePrecedesConfirmation ==
    (node = "__end__" /\ rounds = 0 /\ ExtractedIntoIdle) =>
        /\ state.updated_employees =
               merge_employees(state.existing_employees, state.updates_list)
        /\ ~state.user_approval

\* C20 (extracted data survives the turn): after a document turn whose
\* extraction found records and whose message is "maybe", the workflow state
\* returned to the caller carries every extracted employee in its pending
\* roster, so that a later "yes" confirms them.
C20_ExtractedDataSurvives ==
    (node = "__end__" /\ rounds = 0 /\ ExtractedIntoIdle /\ request.content = MsgMaybe) =>
        NamesOf(state.updates_list) \subseteq
            NamesOf(ResponseData(state).workflow_state[1].updated_employees)

\* C21 (requests after payroll reach the responder): a turn that starts with
\* trigger_payroll set passes the user's message to the conversational
\* responder and answers with the responder's output for that message.
C21_RequestsAfterPayrollReachResponder ==
    (node = "__end__" /\ request.trigger_payroll) =>
        ResponseContent(state.messages) = "response"

\* C22 (baseline loading at init): the init step of a turn replaces an empty
\* existing roster by the roster of the store and leaves a non-empty one as
\* it is; it changes no other roster, flag or field and nothing of the
\* session, and it runs once per turn, at its start, so the store is read at
\* most once.
C22_BaselineLoadingAtInit ==
    [][/\ node = "init" =>
            /\ state' = [state EXCEPT !.existing_employees =
                            IF @ = <<>> THEN load_previous_payperiod_data ELSE @]
            /\ session' = session
       /\ node' = "init" => node = "idle"]_vars

\* the init step has loaded the baseline for a session without one
C22_Witness ==
    /\ node \in {"vlm_processor", "update_agent"}
    /\ Len(state.messages) = 1
    /\ request.existing_employees = <<>>
    /\ state.existing_employees = load_previous_payperiod_data
    /\ state.updated_employees = request.updated_employees

\* C24 (a pending merge is not overwritten by a new extraction): in a turn
\* that starts with a non-empty, unconfirmed pending roster and whose message
\* is not a confirmation, neither the extraction step nor the update step
\* that receives a non-empty extraction result replaces or alters the
\* pending roster.
C24_PendingNotOverwritten ==
    [][(/\ node \in {"vlm_processor", "update_agent"}
        /\ StartedPending
        /\ ~IsConfirmed(request.content)
        /\ state'.updates_list # <<>>)
       => state'.updated_employees = state.updated_employees]_vars

\* such a turn has ended with the extraction result at hand and the pending
\* roster it started with
C24_Witness ==
    /\ node = "__end__"
    /\ rounds = 0
    /\ StartedPending
    /\ ~IsConfirmed(request.content)
    /\ state.updates_list # <<>>
    /\ state.updated_employees = request.updated_employees

\* the flags as the workflow holds them: in the graph's channels during a
\* turn, in the client's workflow_state between turns
FlagsNow ==
    IF node = "idle"
    THEN [user_approval |-> session.workflow_state.user_approval,
          trigger_payroll |-> session.workflow_state.trigger_payroll]
    ELSE [user_approval |-> state.user_approval,
          trigger_payroll |-> state.trigger_payroll]

\* C27 (flags are monotone): over turns in which the client hands back the
\* workflow state it received, no step (building the State from the request,
\* a node of the graph, the answer of /chat and its storing by the client)
\* turns user_approval or trigger_payroll from true to false, in the graph or
\* in the session, and trigger_payroll implies user_approval in every state.
C27_FlagsMonotone ==
    [][/\ FlagsNow.user_approval => FlagsNow'.user_approval
       /\ FlagsNow.trigger_payroll => FlagsNow'.trigger_payroll
       /\ session.workflow_state.user_approval => session'.workflow_state.user_approval
       /\ session.workflow_state.trigger_payroll => session'.workflow_state.trigger_payroll
       /\ FlagsNow.trigger_payroll => FlagsNow.user_approval
       /\ FlagsNow'.trigger_payroll => FlagsNow'.user_approval
       /\ session'.workflow_state.trigger_payroll => session'.workflow_state.user_approval]_vars

\* a turn that started with both flags set has ended with both flags set
C27_Witness ==
    /\ node = "__end__"
    /\ request.user_approval
    /\ request.trigger_payroll
    /\ state.user_approval
    /\ state.trigger_payroll

-----------------------------------------------------------------------------
(* The compiled graph invoked without /chat: by /process-document, with    *)
(* the records it has extracted itself, and by a caller that passes a      *)
(* State dictionary of its own, as the test scripts do.                    *)

\* the message lists such a caller passes
GraphMessages ==
    {<<>>} \cup {<<HumanMessage(c)>> : c \in {MsgMaybe, MsgYes, MsgDocument, MsgPicture}}

\* process_document: initial_state
DocumentState(employees_data) ==
    [DefaultState EXCEPT !.updates_list = employees_data,
                         !.document_uploaded = TRUE,
                         !.document_content = TRUE]

InitGraph ==
    /\ session = [existing_employees |-> <<>>,
                  workflow_state |-> [updated_employees |-> <<>>, current_employees |-> <<>>,
                                      user_approval |-> FALSE, trigger_payroll |-> FALSE,
                                      current_pay_data |-> None]]
    /\ request = NoRequest
    /\ state = DefaultState
    /\ node = "idle"
    /\ reply = NoReply
    /\ turns = 0
    /\ rounds = 0
    /\ extraction = None
    /\ fn = NoCall
    /\ jobs = [k \in Slots |-> IdleJob]

\* /process-document: the endpoint runs the extractor on the uploaded file
\* and invokes the graph with what it returned
ProcessDocument ==
    /\ node = "idle"
    /\ turns < MaxTurns
    /\ \E employees_data \in ExtractedRosters : state' = DocumentState(employees_data)
    /\ fn' = [NoCall EXCEPT !.op = "process_document"]
    /\ node' = "init"
    /\ turns' = turns + 1
    /\ rounds' = 0
    /\ reply' = NoReply
    /\ UNCHANGED <<session, request, extraction, jobs>>

\* graph.ainvoke(state_dict, config)
Invoke ==
    /\ node = "idle"
    /\ turns < MaxTurns
    /\ \E messages \in GraphMessages, existing \in SeedExisting, updated \in SeedUpdated,
          document_uploaded \in BOOLEAN, file_data \in BOOLEAN,
          document_content \in BOOLEAN, updates_list \in {<<>>, DocNewHire} :
         state' = [DefaultState EXCEPT
                      !.messages = messages,
                      !.existing_employees = existing,
                      !.updated_employees = updated,
                      !.document_uploaded = document_uploaded,
                      !.file_data = file_data,
                      !.document_content = document_content,
                      !.updates_list = updates_list]
    /\ fn' = [NoCall EXCEPT !.op = "graph"]
    /\ node' = "init"
    /\ turns' = turns + 1
    /\ rounds' = 0
    /\ reply' = NoReply
    /\ UNCHANGED <<session, request, extraction, jobs>>

\* process_document after graph.ainvoke: an exception of the graph leaves
\* the answer's updated_employees empty
ProcessDocumentReturn ==
    /\ node \in {"__end__", "raised"}
    /\ fn.op = "process_document"
    /\ reply' = [success |-> TRUE, response |-> "processed",
                 workflow_state |-> Some([updated_employees |->
                    IF node = "raised" THEN <<>> ELSE state.updated_employees])]
    /\ node' = "idle"
    /\ state' = DefaultState
    /\ fn' = NoCall
    /\ rounds' = 0
    /\ extraction' = None
    /\ UNCHANGED <<session, request, turns, jobs>>

\* graph.ainvoke returns its result to the caller, or raises
InvokeReturn ==
    /\ node \in {"__end__", "raised"}
    /\ fn.op = "graph"
    /\ reply' = IF node = "raised" THEN ErrorResponse ELSE ResponseData(state)
    /\ node' = "idle"
    /\ state' = DefaultState
    /\ fn' = NoCall
    /\ rounds' = 0
    /\ extraction' = None
    /\ UNCHANGED <<session, request, turns, jobs>>

NextGraph ==
    \/ ProcessDocument
    \/ Invoke
    \/ InitNode
    \/ VlmProcessor
    \/ UpdateAgent
    \/ ToolExecutor
    \/ ProcessDocumentReturn
    \/ InvokeReturn

SpecGraph == InitGraph /\ [][NextGraph]_vars

\* C23 (init routing): the init step routes a turn to the extraction step
\* exactly when the turn carries an uploaded document (document_uploaded is
\* set, or the last message has a content item of type file or image), and
\* otherwise to the update step.
C23_InitRouting ==
    [][node = "init" =>
            (node' = "vlm_processor"
                <=> (state.document_uploaded \/ HasFileItem(state.messages)))]_vars

\* C29 (extraction is skipped when updates are already present): when the
\* extraction step starts with a non-empty updates_list it calls no
\* extractor and writes no temporary file, whatever the extractor would
\* answer, and it returns the updates_list unchanged and marks the document
\* processing done, leaving every other field as it was.
C29_ExtractionSkipped ==
    [][(node = "vlm_processor" /\ state.updates_list # <<>>) =>
        /\ \A o \in ExtractorOutcomes :
              /\ ~vlm_processor(state, o).extractor_called
              /\ ~vlm_processor(state, o).temp_file
        /\ extraction' = None
        /\ state' = [state EXCEPT !.document_processing_done = TRUE]
        /\ node' = "update_agent"]_vars

\* the extraction step has passed on the updates_list it received, although
\* the State held file data
C29_Witness ==
    /\ node = "update_agent"
    /\ state.messages = <<>>
    /\ state.file_data
    /\ state.updates_list = DocNewHire
    /\ state.document_processing_done
    /\ extraction = None

-----------------------------------------------------------------------------
(* Turns whose collaborator calls all return.  Nothing in the graph bounds *)
(* the cycle update_agent -> tool_executor -> update_agent: the compiled    *)
(* graph runs under the step limit of its runtime, which ends a run that   *)
(* has not reached END with an error, raised out of graph.ainvoke.         *)

\* the step limit in force when neither compile() nor the config sets one
RecursionLimit == 25

\* replies of a responder that returns: plain text, or one update_state call
ReturningResponses ==
    {[kind |-> "text", tool_calls |-> <<>>]}
    \cup {[kind |-> "tool_calls",
           tool_calls |-> <<UpdateState(Some(t), Some(ToolRoster))>>] :
            t \in {"current_employees", "updated_employees"}}

\* node executions of the run so far
StepsDone(s, tool_rounds) ==
    1 + (IF s.document_processing_done THEN 1 ELSE 0)
      + Cardinality({i \in DOMAIN s.messages : s.messages[i].type = "ai"})
      + tool_rounds

\* the node the runtime schedules next, if the step limit allows one
Scheduled(next, s, tool_rounds) ==
    IF next = "__end__" THEN "__end__"
    ELSE IF StepsDone(s, tool_rounds) >= RecursionLimit THEN "raised"
    ELSE next

UpdateAgentReturning ==
    /\ node = "update_agent"
    /\ \E r \in ReturningResponses :
         LET out == update_agent(state, r)
         IN  /\ state' = out.state
             /\ node' = IF out.raised THEN "raised"
                        ELSE Scheduled(route_update(out.state), out.state, rounds)
    /\ extraction' = None
    /\ UNCHANGED <<session, request, reply, turns, rounds, fn, jobs>>

ToolExecutorLimited ==
    /\ node = "tool_executor"
    /\ state' = tool_executor(state)
    /\ rounds' = rounds + 1
    /\ node' = Scheduled(route_tools(state'), state', rounds')
    /\ UNCHANGED <<session, request, reply, turns, extraction, fn, jobs>>

\* a session of a client that has just started
InitTurn ==
    /\ Init
    /\ session.existing_employees = <<>>
    /\ session.workflow_state.updated_employees = <<>>

\* the first turn of the session, with a message that is not a confirmation
\* (on a confirmation update_agent returns no tool calls and the run ends)
FirstChat == turns = 0 /\ Chat /\ ~IsConfirmed(request'.content)

GraphStep ==
    \/ InitNode
    \/ VlmProcessor
    \/ UpdateAgentReturning
    \/ ToolExecutorLimited
    \/ ChatReturn

NextTurn ==
    \/ FirstChat
    \/ InitNode
    \/ VlmProcessor
    \/ UpdateAgentReturning
    \/ ToolExecutorLimited
    \/ ChatReturn

\* the runtime executes the node it has scheduled, every collaborator call
\* returns and /chat answers; nothing obliges the user to send a message
SpecTurn == InitTurn /\ [][NextTurn]_vars /\ WF_vars(GraphStep)

\* C25 (every turn terminates): when every collaborator call returns, a turn
\* that has started reaches END after finitely many node executions,
\* whatever tool calls the responder emits.
C25_EveryTurnTerminates == (node = "init") ~> (node = "__end__")

-----------------------------------------------------------------------------
(* tool_executor on its own: the State it receives ends with a reply of    *)
(* the responder that carries one or two tool calls.                       *)

\* the tool calls of these runs: ToolCalls, a call without employees and a
\* call for a list the workflow does not have
ExecutorToolCalls ==
    ToolCalls \cup {UpdateState(Some("updated_employees"), None),
                    UpdateState(Some("other"), Some(ToolRoster))}

ExecutorBatches ==
    {<<tc>> : tc \in ExecutorToolCalls}
    \cup {<<a, b>> : a \in ExecutorToolCalls, b \in ExecutorToolCalls}

InitTools ==
    /\ session = [existing_employees |-> <<>>,
                  workflow_state |-> [updated_employees |-> <<>>, current_employees |-> <<>>,
                                      user_approval |-> FALSE, trigger_payroll |-> FALSE,
                                      current_pay_data |-> None]]
    /\ request = NoRequest
    /\ \E b \in ExecutorBatches, e \in SeedExisting, u \in SeedUpdated, a \in BOOLEAN :
         state = [DefaultState EXCEPT
                     !.messages = <<HumanMessage(MsgMaybe), AIMessage("response", b)>>,
                     !.existing_employees = e,
                     !.updated_employees = u,
                     !.user_approval = a]
    /\ node = "tool_executor"
    /\ reply = NoReply
    /\ turns = 1
    /\ rounds = 0
    /\ extraction = None
    /\ fn = NoCall
    /\ jobs = [k \in Slots |-> IdleJob]

NextTools == ToolExecutor

SpecTools == InitTools /\ [][NextTools]_vars

\* the tool calls tool_executor is about to run
PendingCalls == state.messages[Len(state.messages)].tool_calls

\* an update_state call whose arguments lack target_list or employees, or
\* whose employee records cannot be built
FailingCall(tc) ==
    /\ tc.name = "update_state"
    /\ \/ tc.target_list = None
       \/ tc.employees = None
       \/ \E i \in DOMAIN tc.employees[1] : ~CanBuild(tc.employees[1][i])

\* the positions of the successful update_state calls for list `target`
SuccessfulFor(target) ==
    {i \in DOMAIN PendingCalls :
        /\ PendingCalls[i].name = "update_state"
        /\ ~FailingCall(PendingCalls[i])
        /\ PendingCalls[i].target_list[1] = target}

\* list `target` after the successful calls, the last of them deciding
RosterAfter(target) ==
    IF SuccessfulFor(target) = {} THEN state[target]
    ELSE PendingCalls[CHOOSE i \in SuccessfulFor(target) :
                        \A j \in SuccessfulFor(target) : j <= i].employees[1]

\* C26 (tool_executor is all-or-nothing per tool call): tool_executor emits
\* one message for every update_state call, an error message for exactly the
\* calls that lack target_list or employees or whose records cannot be built;
\* such a call changes no roster and no flag, and a successful call changes
\* only the roster its target_list names, plus user_approval and
\* trigger_payroll when that is current_employees.
C26_ToolExecutorAllOrNothing ==
    [][node = "tool_executor" =>
        LET new == SubSeq(state'.messages, Len(state.messages) + 1, Len(state'.messages))
            flagged == SuccessfulFor("current_employees") # {}
        IN  /\ SubSeq(state'.messages, 1, Len(state.messages)) = state.messages
            /\ Len(new) = Cardinality({i \in DOMAIN PendingCalls :
                                          PendingCalls[i].name = "update_state"})
            /\ Cardinality({j \in DOMAIN new : new[j] = ToolMessage("error")})
                 = Cardinality({i \in DOMAIN PendingCalls : FailingCall(PendingCalls[i])})
            /\ \A j \in DOMAIN new : new[j] \in {ToolMessage("error"), ToolMessage("updated")}
            /\ \A target \in {"current_employees", "updated_employees", "existing_employees"} :
                 state'[target] = RosterAfter(target)
            /\ state'.user_approval = (flagged \/ state.user_approval)
            /\ state'.trigger_payroll = (flagged \/ state.trigger_payroll)
            /\ \A f \in DOMAIN state \ {"messages", "current_employees", "updated_employees",
                                        "existing_employees", "user_approval",
                                        "trigger_payroll"} :
                 state'[f] = state[f]]_vars

\* a batch of a failing call and a successful one has run: one error message,
\* one success message, and only the list of the successful call replaced
C26_Witness ==
    /\ node = "update_agent"
    /\ Len(state.messages) = 4
    /\ state.messages[2].tool_calls =
          << UpdateState(Some("existing_employees"), Some(<<BadDict>>)),
             UpdateState(Some("updated_employees"), Some(ToolRoster)) >>
    /\ state.messages[3] = ToolMessage("error")
    /\ state.messages[4] = ToolMessage("updated")
    /\ state.updated_employees = ToolRoster
    /\ state.existing_employees = << Emp("John Doe", 80, 10, 25) >>
    /\ ~state.trigger_payroll

-----------------------------------------------------------------------------
(* Direct calls of the merge engine and of the payroll calculators, on     *)
(* rosters with pairwise distinct names.                                   *)

FnNames == {"John Doe", "Jane Smith", "Eve Adams"}

ExistingRecords == {Emp(n, 80, 10, pr) : n \in FnNames, pr \in {0, 60}}

\* EmployeeDataRequest types the three numbers as float and nothing more, so
\* a request can carry a negative one: -2.0 regular hours here
UpdateRecords ==
    {Emp(n, h[1], h[2], pr) : n \in FnNames, h \in {<<84, 0>>, <<77, 5>>}, pr \in {0, 50}}
    \cup {Emp(n, -4, 0, 50) : n \in FnNames}

\* the rosters of at most MaxLen records of `records`, names pairwise distinct
RostersOf(records) ==
    UNION {{r \in [1 .. n -> records] : UniqueNames(r)} : n \in 0 .. MaxLen}

InitFn ==
    /\ session = [existing_employees |-> <<>>,
                  workflow_state |-> [updated_employees |-> <<>>,
                                      current_employees |-> <<>>,
                                      user_approval |-> FALSE, trigger_payroll |-> FALSE,
                                      current_pay_data |-> None]]
    /\ request = NoRequest
    /\ state = DefaultState
    /\ node = "idle"
    /\ reply = NoReply
    /\ turns = 0
    /\ rounds = 0
    /\ extraction = None
    /\ fn \in {[NoCall EXCEPT !.op = "input", !.existing = e, !.updates = u] :
                 e \in RostersOf(ExistingRecords), u \in RostersOf(UpdateRecords)}
    /\ jobs = [k \in Slots |-> IdleJob]

Workflow == <<session, request, state, node, reply, turns, rounds, extraction, jobs>>

\* POST /merge-employees with the two rosters
CallMergeEmployeeLists ==
    /\ fn.op = "input"
    /\ fn' = [fn EXCEPT !.op = "merge_employee_lists", !.done = TRUE,
                        !.success = merge_employee_lists(fn.existing, fn.updates).success,
                        !.merged = merge_employee_lists(fn.existing, fn.updates)
                                       .merged_employees]
    /\ UNCHANGED Workflow

\* the roster update_agent builds from the two rosters on a confirmation
CallMergedEmployees ==
    /\ fn.op = "input"
    /\ fn' = [fn EXCEPT !.op = "update_agent", !.done = TRUE,
                        !.merged = MergedEmployees(fn.existing, fn.updates)]
    /\ UNCHANGED Workflow

\* payroll_agent on a State holding the two rosters
CallPayrollAgent ==
    /\ fn.op = "input"
    /\ fn' = [fn EXCEPT !.op = "payroll_agent", !.done = TRUE,
                        !.report = Some(payroll_agent(fn.existing, fn.updates))]
    /\ UNCHANGED Workflow

\* POST /generate-payroll with the roster fn.updates
CallGeneratePayroll ==
    /\ fn.op = "input"
    /\ fn' = [fn EXCEPT !.op = "generate_payroll", !.done = TRUE,
                        !.success = generate_payroll(fn.updates).success,
                        !.report = Some(generate_payroll(fn.updates).payroll_report)]
    /\ UNCHANGED Workflow

\* POST /merge-employees again, with the same existing roster and the roster
\* the first call returned
CallMergeEmployeeListsAgain ==
    /\ fn.op = "merge_employee_lists"
    /\ fn' = [fn EXCEPT !.op = "merge_employee_lists_again",
                        !.remerged = merge_employee_lists(fn.existing, fn.merged)
                                         .merged_employees]
    /\ UNCHANGED Workflow

\* a second confirmation: update_agent with the same existing roster and the
\* updated_employees its first confirmation returned
CallMergedEmployeesAgain ==
    /\ fn.op = "update_agent"
    /\ fn' = [fn EXCEPT !.op = "update_agent_again",
                        !.remerged = MergedEmployees(fn.existing, fn.merged)]
    /\ UNCHANGED Workflow

\* payroll_agent on the State a confirmation leaves: the existing roster and
\* the merged updated_employees
CallPayrollAgentMerged ==
    /\ fn.op = "update_agent"
    /\ fn' = [fn EXCEPT !.op = "payroll_agent_merged",
                        !.report = Some(payroll_agent(fn.existing, fn.merged))]
    /\ UNCHANGED Workflow

\* payroll_agent on a State whose existing_employees is the roster that was
\* posted to /generate-payroll and whose updated_employees is empty
CallPayrollAgentSame ==
    /\ fn.op = "generate_payroll"
    /\ fn' = [fn EXCEPT !.op = "payroll_agent_same",
                        !.workflow_report = Some(payroll_agent(fn.updates, <<>>))]
    /\ UNCHANGED Workflow

NextFn ==
    \/ CallMergeEmployeeLists
    \/ CallMergedEmployees
    \/ CallPayrollAgent
    \/ CallGeneratePayroll
    \/ CallMergeEmployeeListsAgain
    \/ CallMergedEmployeesAgain
    \/ CallPayrollAgentMerged
    \/ CallPayrollAgentSame

SpecFn == InitFn /\ [][NextFn]_vars

-----------------------------------------------------------------------------
(* /chat under concurrent requests.  chat() is an async handler: the       *)
(* server starts a handler for every request that arrives and interleaves  *)
(* the handlers at their awaits.  The request carries the whole workflow   *)
(* state; chat() reads no session identity, takes no lock and has no       *)
(* branch that turns a request away.                                       *)

InitConcurrent ==
    /\ session = [existing_employees |-> <<>>,
                  workflow_state |-> [updated_employees |-> << Emp("Alice Williams", 70, 6, 28) >>,
                                      current_employees |-> <<>>,
                                      user_approval |-> FALSE, trigger_payroll |-> FALSE,
                                      current_pay_data |-> None]]
    /\ request = NoRequest
    /\ state = DefaultState
    /\ node = "idle"
    /\ reply = NoReply
    /\ turns = 0
    /\ rounds = 0
    /\ extraction = None
    /\ fn = NoCall
    /\ jobs = [k \in Slots |-> IdleJob]

Sequential == <<request, state, node, rounds, extraction, fn>>

\* the jobs one execution of the node job.node can lead to
NodeSuccessors(job) ==
    CASE job.node = "init" ->
           {[job EXCEPT !.state = init_node(job.state),
                        !.node = route_init(init_node(job.state))]}
      [] job.node = "vlm_processor" ->
           {[job EXCEPT !.state = vlm_processor(job.state, o).state,
                        !.node = IF vlm_processor(job.state, o).raised THEN "raised"
                                 ELSE route_vlm(vlm_processor(job.state, o).state)] :
              o \in ExtractorOutcomes}
      [] job.node = "update_agent" ->
           {[job EXCEPT !.state = update_agent(job.state, r).state,
                        !.node = IF update_agent(job.state, r).raised THEN "raised"
                                 ELSE route_update(update_agent(job.state, r).state)] :
              r \in {x \in ResponderOutcomes :
                        x.kind = "tool_calls" => job.rounds < MaxToolRounds}}
      [] job.node = "tool_executor" ->
           {[job EXCEPT !.state = tool_executor(job.state),
                        !.node = route_tools(tool_executor(job.state)),
                        !.rounds = job.rounds + 1]}
      [] OTHER -> {}

\* a request of the session arrives; the server starts its handler at once
Arrive(k) ==
    /\ jobs[k].node = "idle"
    /\ turns < MaxTurns
    /\ \E content \in {MsgMaybe, MsgYes}, file_data \in BOOLEAN :
         jobs' = [jobs EXCEPT ![k] =
                     [node |-> "init",
                      request |-> RequestData(content, file_data),
                      state |-> FreshState(RequestData(content, file_data)),
                      rounds |-> 0]]
    /\ turns' = turns + 1
    /\ UNCHANGED <<session, reply>>
    /\ UNCHANGED Sequential

\* the handler in slot k runs its next node
Run(k) ==
    /\ \E job \in NodeSuccessors(jobs[k]) : jobs' = [jobs EXCEPT ![k] = job]
    /\ UNCHANGED <<session, reply, turns>>
    /\ UNCHANGED Sequential

\* the handler in slot k answers and the client stores the answer
Respond(k) ==
    /\ jobs[k].node \in {"__end__", "raised"}
    /\ reply' = IF jobs[k].node = "raised" THEN ErrorResponse
                ELSE ResponseData(jobs[k].state)
    /\ session' = [session EXCEPT
                      !.workflow_state = UpdatedWorkflowState(@, reply')]
    /\ jobs' = [jobs EXCEPT ![k] = IdleJob]
    /\ UNCHANGED turns
    /\ UNCHANGED Sequential

NextConcurrent ==
    \/ \E k \in Slots : Arrive(k)
    \/ \E k \in Slots : Run(k)
    \/ \E k \in Slots : Respond(k)

SpecConcurrent == InitConcurrent /\ [][NextConcurrent]_vars

\* the slots in which a request of the session is being processed
InFlight == {k \in Slots : jobs[k].node # "idle"}

\* C9 (per-session serialization): two turns of one session are never
\* processed at the same time; at most one request of the session is in
\* flight at the server.
C9_SessionSerialized == Cardinality(InFlight) <= 1

-----------------------------------------------------------------------------
(* The confirmation check of update_agent on single messages.  Each run    *)
(* takes one user message through init_node and update_agent.             *)

WordConfirm == << "c", "o", "n", "f", "i", "r", "m" >>
WordYes == << "y", "e", "s" >>
WordApprove == << "a", "p", "p", "r", "o", "v", "e" >>
WordApproved == << "a", "p", "p", "r", "o", "v", "e", "d" >>
WordCorrect == << "c", "o", "r", "r", "e", "c", "t" >>
WordProceed == << "p", "r", "o", "c", "e", "e", "d" >>
WordGeneratePayroll == << "g", "e", "n", "e", "r", "a", "t", "e", " ", "p", "a", "y", "r", "o", "l", "l" >>
WordOkay == << "o", "k", "a", "y" >>
WordAccepted == << "a", "c", "c", "e", "p", "t", "e", "d" >>
WordAccept == << "a", "c", "c", "e", "p", "t" >>
WordAgreed == << "a", "g", "r", "e", "e", "d" >>
WordAgree == << "a", "g", "r", "e", "e" >>
WordConfirmed == << "c", "o", "n", "f", "i", "r", "m", "e", "d" >>
WordGood == << "g", "o", "o", "d" >>
WordRight == << "r", "i", "g", "h", "t" >>
WordYep == << "y", "e", "p" >>
WordYeah == << "y", "e", "a", "h" >>
WordY == << "y" >>
MsgYesPlease == << "y", "e", "s", " ", "p", "l", "e", "a", "s", "e" >>
MsgIncorrect == << "i", "n", "c", "o", "r", "r", "e", "c", "t" >>
MsgNo == << "n", "o" >>
MsgHoldOn == << "h", "o", "l", "d", " ", "o", "n" >>
MsgLooksGoodUpper == << "L", "O", "O", "K", "S", " ", "G", "O", "O", "D" >>

\* the messages a user sends in these runs
TurnMessages ==
    {WordConfirm, WordYes, WordApprove, WordApproved, MsgLooksGood,
     WordCorrect, WordProceed, WordGeneratePayroll, MsgOk, WordOkay,
     WordAccepted, WordAccept, WordAgreed, WordAgree, WordConfirmed,
     WordGood, WordRight, WordYep, WordYeah, WordY, MsgYes, MsgMaybe,
     MsgYesPlease, MsgIncorrect, MsgNo, MsgHoldOn, MsgLooksGoodUpper}

InitConfirm ==
    /\ session = [existing_employees |-> <<>>,
                  workflow_state |-> [updated_employees |-> <<>>,
                                      current_employees |-> <<>>,
                                      user_approval |-> FALSE, trigger_payroll |-> FALSE,
                                      current_pay_data |-> None]]
    /\ request = NoRequest
    /\ state = DefaultState
    /\ node = "idle"
    /\ reply = NoReply
    /\ turns = 0
    /\ rounds = 0
    /\ extraction = None
    /\ fn \in {[NoCall EXCEPT !.op = "message", !.content = m, !.updates = u] :
                 m \in TurnMessages, u \in {<<>>, DocNewHire}}
    /\ jobs = [k \in Slots |-> IdleJob]

\* one turn with message fn.content and pending roster fn.updates: init_node,
\* then update_agent with a responder that answers in plain text or raises
CallUpdateAgent ==
    /\ fn.op = "message"
    /\ \E r \in {x \in ResponderOutcomes : x.kind \in {"text", "raise"}} :
         LET s0 == init_node([DefaultState EXCEPT
                                  !.messages = <<HumanMessage(fn.content)>>,
                                  !.updated_employees = fn.updates])
             out == update_agent(s0, r)
         IN  fn' = [fn EXCEPT
                       !.op = IF out.raised THEN "update_agent_raised"
                              ELSE "update_agent_turn",
                       !.done = TRUE,
                       !.confirmed = out.state.user_approval,
                       !.merged = out.state.updated_employees]
    /\ UNCHANGED Workflow

NextConfirm == CallUpdateAgent

SpecConfirm == InitConfirm /\ [][NextConfirm]_vars

-----------------------------------------------------------------------------
(* Properties of the merge engine and of the payroll calculators *)

\* a merge was computed from fn.existing and fn.updates
MergeDone == fn.op \in {"merge_employee_lists", "update_agent"}

ExistingOnly == {i \in DOMAIN fn.existing : ~HasName(fn.updates, fn.existing[i].name)}

RECURSIVE SumOfTotals(_)
SumOfTotals(lines) ==
    IF lines = <<>> THEN 0 ELSE Head(lines).total_pay + SumOfTotals(Tail(lines))

\* the lines of `report` are the payroll of `roster`; amounts in quarter dollars
IsPayrollOf(report, roster) ==
    /\ Len(report.employees) = Len(roster)
    /\ \A i \in DOMAIN roster :
          LET line == report.employees[i]
              emp == roster[i]
          IN  /\ line.name = emp.name
              /\ line.regular_hours = emp.regular_hours
              /\ line.overtime_hours = emp.overtime_hours
              /\ line.payrate = emp.payrate
              /\ line.regular_pay = 2 * (emp.regular_hours * emp.payrate)
              /\ 2 * line.overtime_pay = 3 * (2 * (emp.overtime_hours * emp.payrate))
              /\ line.total_pay = line.regular_pay + line.overtime_pay
              /\ (emp = Emp("Jane Smith", 77, 5, 50) =>
                    /\ line.regular_pay = 7700
                    /\ line.overtime_pay = 750
                    /\ line.total_pay = 8450)
    /\ report.total_payroll = SumOfTotals(report.employees)

\* C7 (payroll arithmetic): each line of a report copies the name, has
\* regular_pay = regular_hours * rate, overtime_pay = overtime_hours * rate * 1.5
\* and total_pay their sum, and total_payroll is the sum of the total_pay
\* values; (Jane Smith, 38.5, 2.5, 50.0) gives 1925.0, 187.5 and 2112.5.
\* This holds for payroll_agent and for /generate-payroll.
C7_PayrollArithmetic ==
    /\ fn.op = "payroll_agent" =>
          IsPayrollOf(fn.report[1], merge_employees(fn.existing, fn.updates))
    /\ fn.op = "generate_payroll" => IsPayrollOf(fn.report[1], fn.updates)

\* /generate-payroll computed the report of Jane Smith and one more employee
C7_Witness ==
    /\ fn.op = "generate_payroll"
    /\ Len(fn.updates) = 2
    /\ fn.updates[1] = Emp("Jane Smith", 77, 5, 50)
    /\ fn.report[1].employees[1].total_pay = 8450
    /\ fn.report[1].employees[2].overtime_pay > 0
    /\ fn.report[1].total_payroll > 8450

NewEntries == {j \in DOMAIN fn.updates : ~HasName(fn.existing, fn.updates[j].name)}

ScenarioA ==
    /\ fn.existing = << Emp("John Doe", 80, 10, 60) >>
    /\ fn.updates = << Emp("John Doe", 84, 0, 0), Emp("Jane Smith", 77, 5, 50) >>

HasNegative(roster) ==
    \E i \in DOMAIN roster :
        \/ roster[i].regular_hours < 0
        \/ roster[i].overtime_hours < 0
        \/ roster[i].payrate < 0

\* C16 (validation before computation): a request to /merge-employees or to
\* /generate-payroll in which a record has a negative number of hours or a
\* negative rate is answered with a failure, and no merged roster and no
\* payroll report is produced from it.
C16_ValidationBeforeComputation ==
    /\ (fn.op = "generate_payroll" /\ HasNegative(fn.updates)) =>
          (~fn.success /\ fn.report = None)
    /\ (fn.op = "merge_employee_lists" /\ HasNegative(fn.updates)) =>
          (~fn.success /\ fn.merged = <<>>)

\* the vocabulary of twenty entries
Vocabulary20 ==
    {WordConfirm, WordYes, WordApprove, WordApproved, MsgLooksGood,
     WordCorrect, WordProceed, WordGeneratePayroll, MsgOk, WordOkay,
     WordAccepted, WordAccept, WordAgreed, WordAgree, WordConfirmed,
     WordGood, WordRight, WordYep, WordYeah, WordY}

\* the messages of TurnMessages that contain, in lower case, one of
\* confirm, approved, looks good, correct, yes, proceed
SixKeywordMessages ==
    {WordConfirm, WordYes, WordApproved, MsgLooksGood, WordCorrect, WordProceed,
     WordConfirmed, MsgYes, MsgYesPlease, MsgIncorrect, MsgLooksGoodUpper}

RosterOfReport(report) ==
    [i \in DOMAIN report.employees |->
        Emp(report.employees[i].name, report.employees[i].regular_hours,
            report.employees[i].overtime_hours, report.employees[i].payrate)]

\* C28 (re-merging is idempotent): for rosters with unique names, merging the
\* existing roster with the result of a merge gives that result again, for
\* /merge-employees and for a second confirmation of update_agent, and
\* payroll_agent run on the existing roster and the merged one computes over
\* the roster of the first confirmation.
C28_RemergeIdempotent ==
    (UniqueNames(fn.existing) /\ UniqueNames(fn.updates)) =>
        /\ fn.op \in {"merge_employee_lists_again", "update_agent_again"}
              => fn.remerged = fn.merged
        /\ fn.op = "payroll_agent_merged" => RosterOfReport(fn.report[1]) = fn.merged

\* a second confirmation after a merge that replaced the hours of one
\* employee, kept her rate for an update rate of 0 and added a new employee
C28_Witness ==
    /\ fn.op = "update_agent_again"
    /\ fn.existing = << Emp("Jane Smith", 80, 10, 60) >>
    /\ fn.updates = << Emp("Jane Smith", 77, 5, 0), Emp("Eve Adams", 84, 0, 50) >>
    /\ fn.merged = << Emp("Jane Smith", 77, 5, 60), Emp("Eve Adams", 84, 0, 50) >>
    /\ fn.remerged = fn.merged

====
